---------------------------- MODULE Spec2Model ----------------------------
(***************************************************************************)
(* Earth Rotation Angle plus laboratory projection angle                   *)
(* (src/UT1LongLatphi.py): parse_iso_to_datetime, jd_from_datetime,        *)
(* era_from_ut1_iso, proj_angle_lonlat and total_angle_mod.                *)
(*                                                                         *)
(* Numbers.  The program computes in Python floats.  Here every float is   *)
(* an exact rational on a fixed grid, kept as a wide integer W (TLC        *)
(* integers are 32 bits wide, the quantities need about 31 decimal         *)
(* digits):                                                                *)
(*   days (day_frac, jd, D)      counts of 1 microsecond = 1/DayUs day     *)
(*   revolutions (f, f_frac)     counts of 1/M, M = DayUs * 10^17          *)
(*   radians (era, proj, s)      counts of pi/M                            *)
(*   degrees (sum_deg)           counts of 1/M degree                      *)
(* so that the two IAU constants, a microsecond of day fraction and every  *)
(* whole degree are represented without error.  Rounding of binary64 is    *)
(* kept to leading order: a rounding residual is an infinitesimal that     *)
(* vanishes next to a nonzero finite value and survives only next to       *)
(* zero.  That is what decides the sign tests of proj_angle_lonlat, where  *)
(* math.cos(math.radians(90)) is 6.1e-17 and math.sin(math.radians(360))   *)
(* is -2.4e-16, not 0.                                                     *)
(***************************************************************************)
EXTENDS Integers, Sequences, FiniteSets, TLC

VARIABLES
    call,       \* the function called last, "none" before the first call
    ut1_iso,    \* argument: the time string
    lon_deg,    \* argument: longitude, whole degrees
    lat_deg,    \* argument: latitude, whole degrees
    dt,         \* argument: the datetime handed to jd_from_datetime
    ret,        \* what the last call returned, or the ValueError it raised
    locals,     \* local variables of the last run of era_from_ut1_iso
    prev,       \* the clock walk: instant, jd and era before the last step
    origin,     \* the clock walk: jd of the first instant, time elapsed since
    steps       \* the clock walk: steps taken

vars == <<call, ut1_iso, lon_deg, lat_deg, dt, ret, locals, prev, origin, steps>>

-----------------------------------------------------------------------------
(* Wide integers: value = hi * Base^Limbs + sum lo[i] * Base^(i-1), with     *)
(* 0 <= lo[i] < Base; hi carries the sign (floor representation).            *)

Base == 10000

Limbs == 6

\* the value of a one-element set: a definition's operand is bound to its
\* value once, wherever the definition uses it several times
The(S) == CHOOSE x \in S : TRUE

ZeroLo == [i \in 1..Limbs |-> 0]

RECURSIVE WCarry(_, _, _)
WCarry(raw, i, c) ==
    The({ IF i = Limbs + 1 THEN <<v>>
          ELSE <<v % Base>> \o WCarry(raw, i + 1, v \div Base) : v \in {raw[i] + c} })

WNorm(raw) ==
    The({ [hi |-> s[Limbs + 1], lo |-> SubSeq(s, 1, Limbs)] :
          s \in { WCarry(r, 1, 0) : r \in {raw} } })

WRaw(a) == The({ x.lo \o <<x.hi>> : x \in {a} })

WFromInt(n) == WNorm([i \in 1..(Limbs + 1) |-> IF i = 1 THEN n ELSE 0])

WAdd(a, b) ==
    The({ WNorm([i \in 1..(Limbs + 1) |-> x[i] + y[i]]) :
          x \in {WRaw(a)}, y \in {WRaw(b)} })

WSub(a, b) ==
    The({ WNorm([i \in 1..(Limbs + 1) |-> x[i] - y[i]]) :
          x \in {WRaw(a)}, y \in {WRaw(b)} })

\* a * k for an integer |k| < 200000
WMulInt(a, k) ==
    The({ WNorm([i \in 1..(Limbs + 1) |-> x[i] * n]) : x \in {WRaw(a)}, n \in {k} })

\* a * Base^n
RECURSIVE WShift(_, _)
WShift(a, n) ==
    IF n = 0 THEN a
    ELSE The({ WShift([hi |-> x.hi * Base + x.lo[Limbs],
                       lo |-> [i \in 1..Limbs |-> IF i = 1 THEN 0 ELSE x.lo[i - 1]]],
                      n - 1) : x \in {a} })

\* a * b for 0 <= b below Base^4, b given by its limbs
WMul(a, blo) ==
    The({ WAdd(WAdd(WMulInt(x, blo[1]), WShift(WMulInt(x, blo[2]), 1)),
               WAdd(WShift(WMulInt(x, blo[3]), 2), WShift(WMulInt(x, blo[4]), 3))) :
          x \in {a} })

LoLess(x, y) ==
    \E i \in 1..Limbs :
        /\ x[i] < y[i]
        /\ \A j \in (i + 1)..Limbs : x[j] = y[j]

WLess(a, b) ==
    \E x \in {a}, y \in {b} : x.hi < y.hi \/ (x.hi = y.hi /\ LoLess(x.lo, y.lo))

WLeq(a, b) == \E x \in {a}, y \in {b} : x = y \/ WLess(x, y)

WZero == [hi |-> 0, lo |-> ZeroLo]

\* whole multiples of Base^Limbs
WHi(n) == [hi |-> n, lo |-> ZeroLo]

\* the largest multiple of u.d * Base^u.k that is <= a is a - WRem(a, u); the
\* remainder is computed limb by limb from the top (d below Base, or k = Limbs)
RECURSIVE WRemTop(_, _, _, _)
WRemTop(raw, u, i, r) ==
    IF i = u.k
    THEN r
    ELSE The({ WRemTop(raw, u, i - 1, v) :
               v \in {(IF i = Limbs + 1 THEN raw[i] ELSE r * Base + raw[i]) % u.d} })

WRem(a, u) ==
    The({ The({ WNorm([i \in 1..(Limbs + 1) |->
                          IF i <= u.k THEN x[i] ELSE IF i = u.k + 1 THEN r ELSE 0]) :
                r \in {WRemTop(x, u, Limbs + 1, 0)} }) :
          x \in {WRaw(a)} })

WLimbs(l) == [hi |-> 0, lo |-> [i \in 1..Limbs |-> IF i <= Len(l) THEN l[i] ELSE 0]]

\* one day = 864 * Base^2 microseconds; one revolution = M = 8640 * Base^6
\* units of 1/M; 2 pi = 17280 * Base^6 units of pi/M
DayUnit == [d |-> 864, k |-> 2]

RevUnit == [d |-> 8640, k |-> Limbs]

TwoPiUnit == [d |-> 17280, k |-> Limbs]

UnitW(u) == WNorm([i \in 1..(Limbs + 1) |-> IF i = u.k + 1 THEN u.d ELSE 0])

\* math.floor(x) for x counted in units of 1/u
MathFloor(a, u) == The({ WSub(x, WRem(x, u)) : x \in {a} })

\* int(x): truncation toward zero
MathTrunc(a, u) ==
    The({ IF x.hi < 0 /\ WRem(x, u) # WZero THEN WAdd(MathFloor(x, u), UnitW(u))
          ELSE MathFloor(x, u) : x \in {a} })

\* n half days, in microseconds
HalfDays(n) == WMulInt(WMulInt(WMulInt(WFromInt(n), 43200), 1000), 1000)

\* days (microseconds) to revolutions (1/M): times 10^17
DaysToRev(a) == WMulInt(WShift(a, 4), 10)

-----------------------------------------------------------------------------
(* parse_iso_to_datetime.  A string is a sequence of one-character strings. *)

Digits == <<"0", "1", "2", "3", "4", "5", "6", "7", "8", "9">>

IsDigit(c) == \E i \in 1..10 : Digits[i] = c

DigitVal(c) == (CHOOSE i \in 1..10 : Digits[i] = c) - 1

AllDigits(s) == \A i \in 1..Len(s) : IsDigit(s[i])

RECURSIVE NumFrom(_, _, _)
NumFrom(s, i, acc) ==
    IF i > Len(s) THEN acc
    ELSE The({ NumFrom(s, i + 1, v) : v \in {10 * acc + DigitVal(s[i])} })

\* int(s) for a string of digits
NumVal(str) == The({ NumFrom(s, 1, 0) : s \in {str} })

\* s[i:j] of Python, 0-based, j exclusive
Slice(s, i, j) == SubSeq(s, i + 1, j)

\* s.strip(): without the blanks at either end
StrStrip(str) ==
    The({ IF \A i \in 1..Len(s) : s[i] = " " THEN <<>>
          ELSE SubSeq(s,
                      CHOOSE i \in 1..Len(s) :
                          s[i] # " " /\ \A j \in 1..(i - 1) : s[j] = " ",
                      CHOOSE i \in 1..Len(s) :
                          s[i] # " " /\ \A j \in (i + 1)..Len(s) : s[j] = " ") :
          s \in {str} })

IsLeap(year) == year % 4 = 0 /\ (year % 100 # 0 \/ year % 400 = 0)

DaysInMonth(year, month) ==
    IF month = 2 THEN (IF IsLeap(year) THEN 29 ELSE 28)
    ELSE IF month \in {4, 6, 9, 11} THEN 30 ELSE 31

NoValue == [status |-> "ValueError"]

\* the datetime constructor: a record, or ValueError for a field out of range
MakeDatetime(year, month, day, hour, minute, second, microsecond, tzinfo) ==
    IF /\ year \in 1..9999
       /\ month \in 1..12
       /\ day >= 1
       /\ day <= DaysInMonth(year, month)
       /\ hour \in 0..23
       /\ minute \in 0..59
       /\ second \in 0..59
    THEN [status |-> "ok",
          value |-> [year |-> year, month |-> month, day |-> day, hour |-> hour,
                     minute |-> minute, second |-> second,
                     microsecond |-> microsecond, tzinfo |-> tzinfo]]
    ELSE NoValue

\* the time part HH[:MM[:SS[.fff[fff]]]] of fromisoformat: the fields, or <<>>
IsoTimeShape(t, n) ==
    /\ n \in {2, 5, 8, 12, 15}
    /\ AllDigits(Slice(t, 0, 2))
    /\ n >= 5 => (t[3] = ":" /\ AllDigits(Slice(t, 3, 5)))
    /\ n >= 8 => (t[6] = ":" /\ AllDigits(Slice(t, 6, 8)))
    /\ n >= 12 => (t[9] = "." /\ AllDigits(Slice(t, 9, n)))

IsoTimeFields(time) ==
    The({ IF ~IsoTimeShape(t, Len(t)) THEN <<>>
          ELSE <<NumVal(Slice(t, 0, 2)),
                 IF Len(t) >= 5 THEN NumVal(Slice(t, 3, 5)) ELSE 0,
                 IF Len(t) >= 8 THEN NumVal(Slice(t, 6, 8)) ELSE 0,
                 IF Len(t) = 12 THEN 1000 * NumVal(Slice(t, 9, 12))
                 ELSE IF Len(t) = 15 THEN NumVal(Slice(t, 9, 15)) ELSE 0>> :
          t \in {time} })

\* the UTC offset +HH:MM or -HH:MM of fromisoformat
IsoOffsetOk(z) ==
    /\ Len(z) = 6
    /\ z[1] \in {"+", "-"}
    /\ AllDigits(Slice(z, 1, 3))
    /\ z[4] = ":"
    /\ AllDigits(Slice(z, 4, 6))
    /\ NumVal(Slice(z, 1, 3)) < 24
    /\ NumVal(Slice(z, 4, 6)) < 60

\* first index (1-based) of "+" or "-" in t at or after i, or Len(t) + 1
OffsetAt(t, i) ==
    IF \E j \in i..Len(t) : t[j] \in {"+", "-"}
    THEN CHOOSE j \in i..Len(t) :
            /\ t[j] \in {"+", "-"}
            /\ \A h \in i..(j - 1) : t[h] \notin {"+", "-"}
    ELSE Len(t) + 1

IsoDateOk(s) ==
    /\ Len(s) >= 10
    /\ AllDigits(Slice(s, 0, 4))
    /\ s[5] = "-"
    /\ AllDigits(Slice(s, 5, 7))
    /\ s[8] = "-"
    /\ AllDigits(Slice(s, 8, 10))

\* the part after the date and the separator: time fields and offset
IsoTimeAndOffset(s, rest) ==
    The({ The({ IF f = <<>> \/ (z # <<>> /\ ~IsoOffsetOk(z)) THEN NoValue
                ELSE MakeDatetime(NumVal(Slice(s, 0, 4)), NumVal(Slice(s, 5, 7)),
                                  NumVal(Slice(s, 8, 10)), f[1], f[2], f[3], f[4],
                                  IF z = <<>> THEN "none" ELSE "offset") :
                f \in {IsoTimeFields(SubSeq(rest, 1, cut - 1))},
                z \in {SubSeq(rest, cut, Len(rest))} }) :
          cut \in {OffsetAt(rest, 1)} })

\* datetime.fromisoformat(s), for the layouts every CPython since 3.7 accepts:
\* YYYY-MM-DD[*HH[:MM[:SS[.fff[fff]]]][+HH:MM]]
FromIsoFormat(str) ==
    The({ IF ~IsoDateOk(s) THEN NoValue
          ELSE IF Len(s) = 10
          THEN MakeDatetime(NumVal(Slice(s, 0, 4)), NumVal(Slice(s, 5, 7)),
                            NumVal(Slice(s, 8, 10)), 0, 0, 0, 0, "none")
          ELSE The({ IsoTimeAndOffset(s, rest) : rest \in {Slice(s, 11, Len(s))} }) :
          s \in {str} })

\* number of digits at the head of s, counted up to 3
DigitRun(s) ==
    IF s = <<>> \/ ~IsDigit(s[1]) THEN 0
    ELSE IF Len(s) < 2 \/ ~IsDigit(s[2]) THEN 1
    ELSE IF Len(s) < 3 \/ ~IsDigit(s[3]) THEN 2 ELSE 3

\* one field of strptime, then the literal after it, taken from p.rest; a
\* failed match leaves p.ok false.  %m %d %H %M %S take one or two digits, %Y
\* takes four; a literal letter matches in either case
StrpField(parse, width, literal) ==
    The({ The({ IF ~p.ok \/ ~(IF width = 4
                              THEN Len(p.rest) >= 4 /\ AllDigits(SubSeq(p.rest, 1, 4))
                              ELSE n \in {1, 2})
                THEN [ok |-> FALSE, rest |-> <<>>, got |-> p.got]
                ELSE IF literal = {}
                THEN [ok |-> TRUE, rest |-> SubSeq(p.rest, n + 1, Len(p.rest)),
                      got |-> Append(p.got, NumVal(SubSeq(p.rest, 1, n)))]
                ELSE IF Len(p.rest) > n /\ p.rest[n + 1] \in literal
                THEN [ok |-> TRUE, rest |-> SubSeq(p.rest, n + 2, Len(p.rest)),
                      got |-> Append(p.got, NumVal(SubSeq(p.rest, 1, n)))]
                ELSE [ok |-> FALSE, rest |-> <<>>, got |-> p.got] :
                n \in {IF width = 4 THEN 4 ELSE DigitRun(p.rest)} }) :
          p \in {parse} })

\* datetime.strptime(s, "%Y-%m-%dT%H:%M:%S")
StrpTime(s) ==
    The({ IF ~p.ok \/ p.rest # <<>> THEN NoValue
          ELSE IF p.got[2] \notin 1..12 \/ p.got[3] \notin 1..31
                  \/ p.got[4] > 23 \/ p.got[5] > 59
          THEN NoValue
          ELSE MakeDatetime(p.got[1], p.got[2], p.got[3], p.got[4], p.got[5],
                            p.got[6], 0, "none") :
          p \in {StrpField(StrpField(StrpField(StrpField(StrpField(StrpField(
                    [ok |-> TRUE, rest |-> s, got |-> <<>>],
                    4, {"-"}), 2, {"-"}), 2, {"T", "t"}), 2, {":"}), 2, {":"}), 2, {})} })

\* iso_str.strip(), then a final "Z" dropped
StripZ(iso_str) ==
    The({ IF s # <<>> /\ s[Len(s)] = "Z" THEN SubSeq(s, 1, Len(s) - 1) ELSE s :
          s \in {StrStrip(iso_str)} })

parse_iso_to_datetime(iso_str) ==
    The({ The({ IF first.status = "ok" THEN first
                ELSE The({ IF second.status = "ok" THEN second ELSE NoValue :
                           second \in {StrpTime(s)} }) :
                first \in {FromIsoFormat(s)} }) :
          s \in {StripZ(iso_str)} })

-----------------------------------------------------------------------------
(* jd_from_datetime *)

\* int(num / den) of a float: truncation toward zero
IntOf(num, den) ==
    The({ IF n >= 0 THEN n \div den ELSE -((-n) \div den) : n \in {num} })

\* (hour + minute/60 + (second + microsecond*1e-6)/3600) / 24, in microseconds
DayFracOf(d) ==
    WAdd(WMulInt(WMulInt(WFromInt(d.hour * 3600 + d.minute * 60 + d.second), 1000), 1000),
         WFromInt(d.microsecond))

\* the year taken as it is, January and February included
WorkingYearNoShift(d) == d.year

WorkingYear(d) == IF d.month <= 2 THEN d.year - 1 ELSE d.year

WorkingMonth(d) == IF d.month <= 2 THEN d.month + 12 ELSE d.month

\* the century correction without its A // 4 term
GregorianBNoQuarter(year) == 2 - year \div 100

GregorianB(year) == The({ 2 - A + A \div 4 : A \in {year \div 100} })

YearDays(year) == IntOf(36525 * (year + 4716), 100)

MonthDays(month) == IntOf(306001 * (month + 1), 10000)

\* 1524.5, in half days
JdOffsetHalves == 3049

\* int(365.25*(year+4716)) + int(30.6001*(month+1)) + day + B
JdDayNumber(year, month, day) ==
    YearDays(year) + MonthDays(month) + day + GregorianB(year)

jd_from_datetime(d) ==
    The({ WAdd(HalfDays(2 * JdDayNumber(WorkingYear(x), WorkingMonth(x), x.day)
                        - JdOffsetHalves),
               DayFracOf(x)) : x \in {d} })

-----------------------------------------------------------------------------
(* era_from_ut1_iso, after the parse: one definition per assignment, each   *)
(* adding its local variable to the frame l                                 *)

JD_J2000 == 2451545

\* 0.7790572732640 revolutions
ERA_C0 == WShift(WMulInt(WLimbs(<<2640, 7273, 7905, 7>>), 864), 3)

\* the rate rounded to 0.0027378119113545
ERA_C1_Rounded == <<5450, 9113, 7811, 273>>

\* 0.00273781191135448 = ERA_C1 / 10^17
ERA_C1 == <<5448, 9113, 7811, 273>>

\* 2.0 * math.pi * x: revolutions (1/M) to radians (pi/M)
TimesTwoPi(a) == WMulInt(a, 2)

\* jd = jd_from_datetime(dt)
EraJd(d) == The({ [dt |-> x, jd |-> jd_from_datetime(x)] : x \in {d} })

\* D = jd - 2451545.0
EraD(frame) ==
    The({ l @@ [D |-> WSub(l.jd, HalfDays(2 * JD_J2000))] : l \in {frame} })

\* frac_day = (jd + 0.5 - math.floor(jd + 0.5))
EraFracDay(frame) ==
    The({ The({ l @@ [frac_day |-> WSub(x, MathFloor(x, DayUnit))] :
                x \in {WAdd(l.jd, HalfDays(1))} }) : l \in {frame} })

\* the day fraction taken from the Julian Date: jd - math.floor(jd)
EraDayFractionFromJd(frame) ==
    The({ l @@ [day_fraction |-> WSub(l.jd, MathFloor(l.jd, DayUnit))] : l \in {frame} })

\* day_fraction = (dt.hour + dt.minute/60.0 + ...) / 24.0
EraDayFraction(frame) ==
    The({ l @@ [day_fraction |-> DayFracOf(l.dt)] : l \in {frame} })

\* f = 0.7790572732640 + 0.00273781191135448 * D + day_fraction
EraF(frame) ==
    The({ l @@ [f |-> WAdd(WAdd(ERA_C0, WMul(l.D, ERA_C1)), DaysToRev(l.day_fraction))] :
          l \in {frame} })

\* the fractional part taken by truncation: f - int(f)
EraFractionTrunc(frame) ==
    The({ l @@ [f_frac |-> WSub(l.f, MathTrunc(l.f, RevUnit))] : l \in {frame} })

\* f_frac = f - math.floor(f)
EraFraction(frame) ==
    The({ l @@ [f_frac |-> WSub(l.f, MathFloor(l.f, RevUnit))] : l \in {frame} })

\* era = 2.0 * math.pi * f_frac; era = era % (2.0 * math.pi)
EraNormalize(frame) ==
    The({ l @@ [era |-> WRem(TimesTwoPi(l.f_frac), TwoPiUnit)] : l \in {frame} })

era_locals(d) ==
    EraNormalize(EraFraction(EraF(EraDayFraction(EraFracDay(EraD(EraJd(d)))))))

-----------------------------------------------------------------------------
(* Floats of proj_angle_lonlat.  A scalar is m * eps^k to leading order     *)
(* (mantissa m scaled by 1000 per factor, eps a positive infinitesimal); an *)
(* angle is a wide integer w (pi/M) or, when w is zero, a nonzero           *)
(* infinitesimal of sign tiny.                                              *)

Sgn(n) == IF n > 0 THEN 1 ELSE IF n < 0 THEN -1 ELSE 0

Exact(w) == [w |-> w, tiny |-> 0]

\* math.radians(deg) for a whole number of degrees: deg * (pi/180)
MathRadians(deg) == Exact(WHi(48 * deg))

\* math.degrees(a): a * (180/pi), in units of 1/M degree
MathDegrees(a) == [w |-> WMulInt(a.w, 180), tiny |-> a.tiny]

TwoPi == Exact(UnitW(TwoPiUnit))

\* whole degrees of an angle made by MathRadians
DegOf(a) == a.w.hi \div 48

\* 1000 * cos at the tabulated angles
CosTable ==
    [d \in {0, 10, 45, 80, 90, 135, 180, 225, 270, 280, 315, 350} |->
        CASE d = 0 -> 1000
          [] d \in {10, 350} -> 985
          [] d \in {45, 315} -> 707
          [] d \in {80, 280} -> 174
          [] d \in {90, 270} -> 0
          [] d \in {135, 225} -> -707
          [] d = 180 -> -1000]

CosIdeal(deg) == CosTable[deg % 360]

SinIdeal(deg) == CosTable[(deg - 90) % 360]

\* math.cos, math.sin of math.radians(deg): math.pi lies below pi, so the float
\* angle falls short of deg degrees by a relative 4e-17 and a zero of cos or sin
\* is missed by that much (binary64 values at the tabulated angles, |deg| <= 540)
MathCos(a) ==
    The({ IF CosIdeal(deg) # 0 THEN [m |-> CosIdeal(deg), k |-> 0]
          ELSE [m |-> Sgn(deg) * Sgn(SinIdeal(deg)), k |-> 1] : deg \in {DegOf(a)} })

MathSin(a) ==
    The({ IF SinIdeal(deg) # 0 THEN [m |-> SinIdeal(deg), k |-> 0]
          ELSE IF deg = 0 THEN [m |-> 0, k |-> 0]
          ELSE [m |-> -Sgn(deg) * Sgn(CosIdeal(deg)), k |-> 1] : deg \in {DegOf(a)} })

FloatMul(a, b) ==
    The({ IF x.m = 0 \/ y.m = 0 THEN [m |-> 0, k |-> 0]
          ELSE [m |-> x.m * y.m, k |-> x.k + y.k] : x \in {a}, y \in {b} })

\* a + b: an infinitesimal next to a nonzero finite value is rounded away
FloatAdd(a, b) ==
    The({ [w |-> w, tiny |-> IF w = WZero THEN Sgn(a.tiny + b.tiny) ELSE 0] :
          w \in {WAdd(a.w, b.w)} })

FloatNeg(a) == a.w.hi < 0 \/ a.tiny < 0

\* a % (2.0 * math.pi): the remainder takes the sign of the divisor
FloatMod2Pi(a) ==
    The({ IF x.tiny < 0 THEN TwoPi
          ELSE [w |-> WRem(x.w, TwoPiUnit), tiny |-> x.tiny] : x \in {a} })

PrincipalDegrees == {-135, -90, -45, 0, 45, 90, 135, 180}

\* math.atan2(y, x), in (-pi, pi]; the sign of a zero y is not kept (beside
\* x < 0 it gives pi or -pi, which the caller's wrap makes the same angle)
MathAtan2(yy, xx) ==
    The({ IF y.m = 0 THEN (IF x.m < 0 THEN MathRadians(180) ELSE Exact(WZero))
          ELSE IF x.m = 0 \/ x.k > y.k THEN MathRadians(90 * Sgn(y.m))
          ELSE IF y.k > x.k
               THEN (IF x.m > 0 THEN [w |-> WZero, tiny |-> Sgn(y.m)]
                     ELSE MathRadians(180 * Sgn(y.m)))
          ELSE MathRadians(CHOOSE a \in PrincipalDegrees :
                              /\ CosIdeal(a) * y.m = SinIdeal(a) * x.m
                              /\ CosIdeal(a) * x.m + SinIdeal(a) * y.m > 0) :
          y \in {yy}, x \in {xx} })

\* if ang < 0.0: ang += 2.0 * math.pi
ProjWrap(angle) ==
    The({ IF FloatNeg(ang) THEN FloatAdd(ang, TwoPi) ELSE ang : ang \in {angle} })

proj_angle_lonlat(lon_d, lat_d) ==
    The({ ProjWrap(MathAtan2(FloatMul(coslat, MathSin(lon)), FloatMul(coslat, MathCos(lon)))) :
          lon \in {MathRadians(lon_d)}, coslat \in {MathCos(MathRadians(lat_d))} })

-----------------------------------------------------------------------------
(* era_from_ut1_iso and total_angle_mod *)

era_from_ut1_iso(iso_str) ==
    The({ IF parsed.status # "ok" THEN parsed
          ELSE [status |-> "ok", value |-> Exact(era_locals(parsed.value).era)] :
          parsed \in {parse_iso_to_datetime(iso_str)} })

\* the sum returned without the reduction
TotalSumUnreduced(era, proj) ==
    The({ [sum_rad |-> s, sum_deg |-> MathDegrees(s), era |-> era, proj |-> proj] :
          s \in {FloatAdd(era, proj)} })

\* s = era + proj; s_mod = s % (2.0 * math.pi)
TotalSum(era, proj) ==
    The({ [sum_rad |-> s_mod, sum_deg |-> MathDegrees(s_mod), era |-> era, proj |-> proj] :
          s_mod \in {FloatMod2Pi(FloatAdd(era, proj))} })

total_angle_mod(iso_str, lon_d, lat_d) ==
    The({ IF era.status # "ok" THEN era
          ELSE The({ [status |-> "ok", value |-> TotalSum(era.value, proj)] :
                     proj \in {proj_angle_lonlat(lon_d, lat_d)} }) :
          era \in {era_from_ut1_iso(iso_str)} })

-----------------------------------------------------------------------------
(* The callers: arguments from small sets. *)

IsoInputs ==
    { <<"2", "0", "0", "0", "-", "0", "1", "-", "0", "1", "T", "1", "2", ":", "0", "0", ":", "0", "0">>,
      <<"2", "0", "0", "0", "-", "0", "1", "-", "0", "1", "T", "1", "2", ":", "0", "0", ":", "0", "0", "Z">>,
      <<"2", "0", "2", "5", "-", "0", "8", "-", "1", "7", "T", "1", "2", ":", "0", "0", ":", "0", "0", ".", "1", "2", "3", "4", "5", "6">>,
      <<"2", "0", "2", "5", "-", "8", "-", "1", "7", "T", "1", "2", ":", "0", "0", ":", "0", "0">>,
      <<"2", "0", "0", "0", "-", "0", "1", "-", "0", "1">>,
      <<"2", "0", "0", "0", "-", "0", "1", "-", "0", "1", "T", "1", "2", ":", "0", "0", ":", "0", "0", "+", "0", "8", ":", "0", "0">>,
      <<"1", "9", "9", "9", "-", "1", "2", "-", "3", "1", " ", "2", "3", ":", "5", "9", ":", "5", "9", ".", "9", "9", "9">>,
      <<" ", "2", "0", "2", "4", "-", "0", "2", "-", "2", "9", "T", "0", "6", ":", "0", "0", ":", "0", "0", " ">>,
      <<"1", "9", "0", "0", "-", "0", "3", "-", "0", "1", "T", "0", "0", ":", "0", "0", ":", "0", "0">>,
      <<"2", "1", "0", "0", "-", "1", "2", "-", "3", "1", "T", "2", "3", ":", "5", "9", ":", "5", "9">>,
      <<"1", "2", ":", "0", "0", ":", "0", "0">>,
      <<"2", "0", "0", "1", "-", "0", "2", "-", "2", "9", "T", "0", "0", ":", "0", "0", ":", "0", "0">>,
      <<"2", "0", "0", "0", "-", "0", "1", "-", "0", "1", "T", "1", "2", ":", "0", "0", ":", "6", "0">>,
      <<>> }

\* multiples of 45 degrees from -360 to 450
LonGrid == {45 * k : k \in -8..10}

LatGrid == {-90, 0, 10, 80, 90, 135}

None == [status |-> "none"]

NoDatetime == [year |-> 0]

Init ==
    /\ call = "none"
    /\ ut1_iso \in IsoInputs
    /\ lon_deg \in LonGrid
    /\ lat_deg \in LatGrid
    /\ dt = NoDatetime
    /\ ret = None
    /\ locals = None
    /\ prev = None
    /\ origin = None
    /\ steps = 0

CallParse ==
    /\ call = "none"
    /\ call' = "parse_iso_to_datetime"
    /\ ret' = parse_iso_to_datetime(ut1_iso)
    /\ locals' = None
    /\ UNCHANGED <<ut1_iso, lon_deg, lat_deg, dt, prev, origin, steps>>

CallEra ==
    /\ call = "none"
    /\ call' = "era_from_ut1_iso"
    /\ ret' = era_from_ut1_iso(ut1_iso)
    /\ locals' = The({ IF parsed.status = "ok" THEN era_locals(parsed.value) ELSE None :
                        parsed \in {parse_iso_to_datetime(ut1_iso)} })
    /\ UNCHANGED <<ut1_iso, lon_deg, lat_deg, dt, prev, origin, steps>>

CallProj ==
    /\ call = "none"
    /\ call' = "proj_angle_lonlat"
    /\ ret' = [status |-> "ok", value |-> proj_angle_lonlat(lon_deg, lat_deg)]
    /\ locals' = None
    /\ UNCHANGED <<ut1_iso, lon_deg, lat_deg, dt, prev, origin, steps>>

CallTotal ==
    /\ call = "none"
    /\ call' = "total_angle_mod"
    /\ ret' = total_angle_mod(ut1_iso, lon_deg, lat_deg)
    /\ locals' = None
    /\ UNCHANGED <<ut1_iso, lon_deg, lat_deg, dt, prev, origin, steps>>

Next == CallParse \/ CallEra \/ CallProj \/ CallTotal

Spec == Init /\ [][Next]_vars

-----------------------------------------------------------------------------
(* A clock walk: jd_from_datetime and the ERA are read at an instant, to    *)
(* which the caller then adds one day or one microsecond (the datetime      *)
(* arithmetic of the standard library), and are read again.                 *)

MaxSteps == 2

\* d + timedelta(days=1)
PlusDay(d) ==
    IF d.day < DaysInMonth(d.year, d.month) THEN [d EXCEPT !.day = d.day + 1]
    ELSE IF d.month < 12 THEN [d EXCEPT !.day = 1, !.month = d.month + 1]
    ELSE [d EXCEPT !.day = 1, !.month = 1, !.year = d.year + 1]

\* d + timedelta(microseconds=1)
PlusMicrosecond(d) ==
    IF d.microsecond < 999999 THEN [d EXCEPT !.microsecond = d.microsecond + 1]
    ELSE IF d.second < 59 THEN [d EXCEPT !.microsecond = 0, !.second = d.second + 1]
    ELSE IF d.minute < 59
    THEN [d EXCEPT !.microsecond = 0, !.second = 0, !.minute = d.minute + 1]
    ELSE IF d.hour < 23
    THEN [d EXCEPT !.microsecond = 0, !.second = 0, !.minute = 0, !.hour = d.hour + 1]
    ELSE PlusDay([d EXCEPT !.microsecond = 0, !.second = 0, !.minute = 0, !.hour = 0])

ClockYears == {1900, 1999, 2000, 2024, 2025, 2100}

ClockTimes == {<<0, 0, 0, 0>>, <<1, 25, 0, 0>>, <<12, 0, 0, 0>>, <<23, 59, 59, 999999>>}

\* the first day and the last days of every month, at four times of day
ClockStarts ==
    { [year |-> y, month |-> m, day |-> d, hour |-> t[1], minute |-> t[2],
       second |-> t[3], microsecond |-> t[4], tzinfo |-> "none"] :
      y \in ClockYears, m \in 1..12, d \in {1, 27, 28, 29, 30, 31}, t \in ClockTimes }

ClockInit ==
    /\ call = "none"
    /\ ut1_iso = <<>>
    /\ lon_deg = 0
    /\ lat_deg = 0
    /\ dt \in {d \in ClockStarts : d.day <= DaysInMonth(d.year, d.month)}
    /\ ret = None
    /\ locals = None
    /\ prev = None
    /\ origin = None
    /\ steps = 0

\* the first reading
ClockRead ==
    /\ call = "none"
    /\ call' = "read"
    /\ \E l \in {era_locals(dt)} :
        /\ locals' = l
        /\ ret' = [status |-> "ok", value |-> l.jd]
        /\ origin' = [jd |-> l.jd, elapsed |-> WZero]
    /\ UNCHANGED <<ut1_iso, lon_deg, lat_deg, dt, prev, steps>>

\* the caller moves on by `next`, `us` microseconds later, and reads again
ClockStep(kind, next, us) ==
    /\ call # "none"
    /\ steps < MaxSteps
    /\ call' = kind
    /\ dt' = next
    /\ steps' = steps + 1
    /\ prev' = [dt |-> dt, jd |-> locals.jd, era |-> locals.era]
    /\ origin' = [origin EXCEPT !.elapsed = WAdd(@, us)]
    /\ \E l \in {era_locals(next)} :
        /\ locals' = l
        /\ ret' = [status |-> "ok", value |-> l.jd]
    /\ UNCHANGED <<ut1_iso, lon_deg, lat_deg>>

ClockDay == ClockStep("day", PlusDay(dt), HalfDays(2))

ClockMicrosecond == ClockStep("microsecond", PlusMicrosecond(dt), WFromInt(1))

ClockNext == ClockRead \/ ClockDay \/ ClockMicrosecond

SpecClock == ClockInit /\ [][ClockNext]_vars

-----------------------------------------------------------------------------
(* jd_from_datetime called on any object with the calendar attributes,      *)
(* years before 1 included.                                                 *)

JdYears == {-4800, -4718, -4717, -4716, -4713, -1, 0, 1, 1582, 2000}

JdInit ==
    /\ call = "none"
    /\ ut1_iso = <<>>
    /\ lon_deg = 0
    /\ lat_deg = 0
    /\ dt \in { [year |-> y, month |-> m, day |-> d, hour |-> h, minute |-> 0,
                 second |-> 0, microsecond |-> 0, tzinfo |-> "none"] :
                y \in JdYears, m \in 1..12, d \in {1, 28}, h \in {0, 18} }
    /\ ret = None
    /\ locals = None
    /\ prev = None
    /\ origin = None
    /\ steps = 0

CallJd ==
    /\ call = "none"
    /\ call' = "jd_from_datetime"
    /\ ret' = [status |-> "ok", value |-> jd_from_datetime(dt)]
    /\ UNCHANGED <<ut1_iso, lon_deg, lat_deg, dt, locals, prev, origin, steps>>

JdNext == CallJd

SpecJd == JdInit /\ [][JdNext]_vars

-----------------------------------------------------------------------------
(* Properties of the calls (specification Spec). *)

\* 0 <= a < 2 pi
InTurn(a) == ~FloatNeg(a) /\ WLess(a.w, TwoPi.w)

\* C1: total_angle_mod returns sum_rad = (ERA + projection angle) reduced by
\* floor-mod 2 pi, so 0 <= sum_rad < 2 pi and sum_rad differs from the sum by
\* a whole number of turns, and sum_deg = sum_rad * 180/pi with
\* 0 <= sum_deg < 360; the components returned are those of the two functions.
C1_TotalAngle ==
    (call = "total_angle_mod" /\ ret.status = "ok") =>
        /\ ret.value.era = era_from_ut1_iso(ut1_iso).value
        /\ ret.value.proj = proj_angle_lonlat(lon_deg, lat_deg)
        /\ InTurn(ret.value.sum_rad)
        /\ \E k \in {0, 1} :
              WAdd(ret.value.sum_rad.w, WMulInt(TwoPi.w, k))
                  = WAdd(ret.value.era.w, ret.value.proj.w)
        /\ ret.value.sum_deg.w = WMulInt(ret.value.sum_rad.w, 180)
        /\ ~FloatNeg(ret.value.sum_deg)
        /\ WLess(ret.value.sum_deg.w, WMulInt(TwoPi.w, 180))

\* a call of total_angle_mod whose sum reached a full turn and was reduced
C1_Witness ==
    /\ call = "total_angle_mod"
    /\ ret.status = "ok"
    /\ ~WLess(WAdd(ret.value.era.w, ret.value.proj.w), TwoPi.w)
    /\ WLess(ret.value.sum_rad.w, ret.value.era.w)

\* C3: for |lat| < 90 proj_angle_lonlat returns a value in [0, 2 pi) that does
\* not depend on the latitude and is the longitude reduced to [0, 360), in
\* radians (a rounding residual next to the value is within tolerance)
C3_ProjIsLongitude ==
    (call = "proj_angle_lonlat" /\ lat_deg \in -89..89) =>
        /\ InTurn(ret.value)
        /\ ret.value.w = MathRadians(lon_deg % 360).w

\* C4: at lat = 90 or -90 proj_angle_lonlat returns 0 for every longitude, and
\* total_angle_mod returns sum_rad = ERA (a rounding residual next to 0 is
\* within tolerance)
C4_PoleIsZero ==
    /\ (call = "proj_angle_lonlat" /\ lat_deg \in {-90, 90}) =>
           ret.value.w = WZero
    /\ (call = "total_angle_mod" /\ ret.status = "ok" /\ lat_deg \in {-90, 90}) =>
           (ret.value.proj.w = WZero /\ ret.value.sum_rad.w = ret.value.era.w)

\* YYYY-MM-DD, T or a blank, HH:MM:SS, then nothing or a "." and digits
DateTimeLayout(s) ==
    /\ IsoDateOk(s)
    /\ Len(s) >= 19
    /\ s[11] \in {"T", " "}
    /\ IsoTimeShape(Slice(s, 11, 19), 8)
    /\ Len(s) > 19 => (s[20] = "." /\ Len(s) > 20 /\ AllDigits(Slice(s, 20, Len(s))))

\* the layouts the parser is specified to accept, after the blanks around the
\* string and a final Z are dropped: date and time with or without fractional
\* seconds, as either matcher reads the one without
AcceptedLayout(str) ==
    \E s \in {StripZ(str)} : DateTimeLayout(s) \/ StrpTime(s).status = "ok"

\* C5: a string that matches none of the accepted layouts (date only, or with
\* a UTC offset) makes parse_iso_to_datetime fail with the ValueError, and
\* era_from_ut1_iso and total_angle_mod fail with it too
C5_OtherLayoutsRejected ==
    (call \in {"parse_iso_to_datetime", "era_from_ut1_iso", "total_angle_mod"}
        /\ ~AcceptedLayout(ut1_iso)) => ret = NoValue

J2000Noon ==
    <<"2", "0", "0", "0", "-", "0", "1", "-", "0", "1", "T", "1", "2", ":", "0", "0", ":", "0", "0">>

\* 0.2790572732640 revolutions
J2000Fraction == WShift(WMulInt(WLimbs(<<2640, 7273, 7905, 2>>), 864), 3)

\* C8: for 2000-01-01T12:00:00 jd_from_datetime gives exactly 2451545.0
\* through the month <= 2 branch (working year 1999, month 13), D = 0,
\* f = 1.2790572732640, f_frac = 0.2790572732640, ERA = 2 pi * 0.2790572732640
C8_J2000Reference ==
    (call = "era_from_ut1_iso" /\ ut1_iso = J2000Noon) =>
        /\ ret.status = "ok"
        /\ locals.dt.month <= 2
        /\ WorkingYear(locals.dt) = 1999
        /\ WorkingMonth(locals.dt) = 13
        /\ locals.jd = WMulInt(WMulInt(WMulInt(WFromInt(2451545), 86400), 1000), 1000)
        /\ locals.D = WZero
        /\ locals.f = WAdd(J2000Fraction, UnitW(RevUnit))
        /\ locals.f_frac = J2000Fraction
        /\ locals.era = WMulInt(J2000Fraction, 2)
        /\ ret.value = Exact(locals.era)

C8_Witness ==
    /\ call = "era_from_ut1_iso"
    /\ ut1_iso = J2000Noon
    /\ ret.status = "ok"
    /\ locals.D = WZero

-----------------------------------------------------------------------------
(* Properties of the clock walk (specification SpecClock). *)

OneRev == UnitW(RevUnit)

\* C2: for every valid timestamp, before J2000 (D and f negative) included,
\* f_frac = f - floor(f) lies in [0, 1) and differs from f by a whole number
\* of revolutions, and ERA = 2 pi * f_frac satisfies 0 <= ERA < 2 pi
C2_EraInTurn ==
    (locals # None) =>
        /\ locals.f_frac.hi >= 0
        /\ WLess(locals.f_frac, OneRev)
        /\ WRem(WSub(locals.f, locals.f_frac), RevUnit) = WZero
        /\ WLeq(WSub(locals.f, locals.f_frac), locals.f)
        /\ locals.era = WMulInt(locals.f_frac, 2)
        /\ InTurn(Exact(locals.era))

\* an instant before J2000 whose f is negative and not a whole number
C2_Witness ==
    /\ locals # None
    /\ locals.D.hi < 0
    /\ locals.f.hi < 0
    /\ locals.f_frac # WZero

OneDay == WMulInt(WMulInt(WFromInt(86400), 1000), 1000)

DailyAdvance == WMulInt(WShift(WMulInt(WLimbs(<<5448, 9113, 7811, 273>>), 864), 2), 2)

\* C7: one day later the ERA is larger by 2 pi * 0.00273781191135448, modulo
\* 2 pi, also across month, leap-day, century and year boundaries
C7_DailyAdvance ==
    (call = "day") =>
        locals.era = WRem(WAdd(prev.era, DailyAdvance), TwoPiUnit)

\* a day step over the turn of a month on which the ERA wrapped past 2 pi
C7_Witness ==
    /\ call = "day"
    /\ prev.dt.month # dt.month
    /\ WLess(locals.era, prev.era)

\* microseconds since midnight, from the clock fields
FieldMicroseconds(d) ==
    WAdd(WMulInt(WMulInt(WFromInt((d.hour * 60 + d.minute) * 60 + d.second), 1000), 1000),
         WFromInt(d.microsecond))

Midnight(d) == [d EXCEPT !.hour = 0, !.minute = 0, !.second = 0, !.microsecond = 0]

\* C10: the day fraction in f is the one computed from the hour, minute,
\* second and microsecond fields: f = 0.7790572732640 + 0.00273781191135448 * D
\* + that fraction, and it is the term by which jd_from_datetime exceeds the
\* Julian Date of the same day's midnight
C10_FieldDayFraction ==
    (locals # None) =>
        /\ locals.day_fraction = FieldMicroseconds(dt)
        /\ WSub(WSub(locals.f, ERA_C0), WMul(locals.D, ERA_C1))
               = DaysToRev(FieldMicroseconds(dt))
        /\ WSub(locals.jd, jd_from_datetime(Midnight(dt))) = FieldMicroseconds(dt)

\* an instant at civil noon, where the fractional part of the Julian Date is 0
C10_Witness ==
    /\ locals # None
    /\ dt.hour = 12
    /\ WRem(locals.jd, DayUnit) = WZero
    /\ locals.day_fraction = HalfDays(1)

-----------------------------------------------------------------------------
(* Property of jd_from_datetime on any year (specification SpecJd). *)

\* floor(num / den)
FloorOf(num, den) == num \div den

\* C9: the returned JD is floor(365.25*(Y+4716)) + floor(30.6001*(M+1)) + day
\* + B - 1524.5 + day_frac with A = floor(Y/100), B = 2 - A + floor(A/4), for
\* every working year Y, also where Y + 4716 is negative
C9_FloorSteps ==
    (call = "jd_from_datetime") =>
        \E Y \in {WorkingYear(dt)}, M \in {WorkingMonth(dt)} :
            ret.value =
                WAdd(HalfDays(2 * (FloorOf(36525 * (Y + 4716), 100)
                                   + FloorOf(306001 * (M + 1), 10000) + dt.day
                                   + 2 - FloorOf(Y, 100) + FloorOf(FloorOf(Y, 100), 4))
                              - 3049),
                     FieldMicroseconds(dt))

=============================================================================
